---------------------------- MODULE Spec2Model ----------------------------
(***************************************************************************)
(* The data-retrieval layer of windsor_api.py: WindsorClient and GA4Client. *)
(*                                                                         *)
(* One logical call of _fetch is a state machine.  The calling thread runs *)
(* _fetch; every _fetch_single invocation (the single one of the           *)
(* single-shot path, or one per chunk on the pool's worker threads) is a   *)
(* task.  A task takes one step per network request: the request gets a    *)
(* nondeterministic outcome from the upstream and the step runs the code   *)
(* up to the next request, the next backoff sleep, or the end of the task. *)
(***************************************************************************)
EXTENDS Integers, Sequences, FiniteSets, TLC

VARIABLES
    client,            \* "windsor" (WindsorClient) or "ga4" (GA4Client)
    fields,            \* the caller's field list
    progress_cb,       \* whether the caller gave a progress callback
    date_from,         \* ISO date string, as its ten characters
    date_to,
    date_aggregation,  \* "none" (None), "month" or "year"
    fpc,               \* where _fetch is
    chunks,            \* _fetch's local chunks
    tasks,             \* the _fetch_single invocations, one record each
    yielded,           \* futures as_completed has yielded so far
    done,              \* _fetch's local done
    dfs,               \* _fetch's local dfs
    pending,           \* the exception on its way out of _fetch's with block
    cb_log,            \* the (completed, total) pairs given to progress_cb
    outcome,           \* what _fetch gave its caller
    faultsLeft,        \* outcomes other than the plain one (status 200, rows
                       \* with every requested field) the upstream may still give
    frames             \* a table with its values, and what _normalise_rates
                       \* made of it, call after call

vars == << client, fields, progress_cb, date_from, date_to, date_aggregation,
           fpc, chunks, tasks, yielded, done, dfs, pending, cb_log, outcome,
           faultsLeft, frames >>

-----------------------------------------------------------------------------
(* Module constants, windsor_api.py lines 11-14.                           *)

_MAX_RETRIES == 3
_QUARTER_DAYS == 90
_WORKERS == 4

-----------------------------------------------------------------------------
(* Bounds of the model.                                                    *)

\* Outcomes other than the plain one (a connectivity failure, a status other
\* than 200, a body without rows or with a field left out) the upstream gives
\* within one single-shot call.
MaxFaults == 5
\* The same within one chunked call, where up to _WORKERS tasks interleave.
MaxChunkFaults == 1
\* Fields of a request the upstream may leave out of the rows it returns.
MaxOmitted == 1
\* date_to - date_from of the longest range of a call, in days.
LongSpan == 361
\* The longest range given to _make_chunks on its own, in days.
MaxSpan == 275
\* Rows of a table given to _normalise_rates.
MaxRows == 2

-----------------------------------------------------------------------------
(* Calendar dates: datetime.date, as <<year, month, day>>, and the         *)
(* proleptic Gregorian ordinal that date arithmetic goes through.          *)

IsLeap(y) == (y % 4 = 0 /\ y % 100 # 0) \/ y % 400 = 0

DaysInMonth(y, m) ==
    IF m \in {4, 6, 9, 11} THEN 30
    ELSE IF m = 2 THEN (IF IsLeap(y) THEN 29 ELSE 28)
    ELSE 31

DaysBeforeYear(y) ==
    (y - 1) * 365 + (y - 1) \div 4 - (y - 1) \div 100 + (y - 1) \div 400

RECURSIVE DaysBeforeMonth(_, _)
DaysBeforeMonth(y, m) ==
    IF m = 1 THEN 0 ELSE DaysBeforeMonth(y, m - 1) + DaysInMonth(y, m - 1)

toordinal(d) == DaysBeforeYear(d[1]) + DaysBeforeMonth(d[1], d[2]) + d[3]

RECURSIVE YearOf(_, _)
YearOf(n, y) == IF n > DaysBeforeYear(y + 1) THEN YearOf(n, y + 1) ELSE y

RECURSIVE MonthOf(_, _, _)
MonthOf(n, y, m) ==
    IF n > DaysBeforeMonth(y, m) + DaysInMonth(y, m)
    THEN MonthOf(n, y, m + 1) ELSE m

fromordinal(n) ==
    LET y == YearOf(n, n \div 366 + 1)
        r == n - DaysBeforeYear(y)
        m == MonthOf(r, y, 1)
    IN  << y, m, r - DaysBeforeMonth(y, m) >>

\* date + timedelta(days = k)
AddDays(d, k) == fromordinal(toordinal(d) + k)

\* (a - b).days
DaysBetween(a, b) == toordinal(a) - toordinal(b)

\* date.isoformat(): "YYYY-MM-DD", character by character.
isoformat(d) ==
    << d[1] \div 1000, (d[1] \div 100) % 10, (d[1] \div 10) % 10, d[1] % 10, "-",
       d[2] \div 10, d[2] % 10, "-", d[3] \div 10, d[3] % 10 >>

\* date.fromisoformat()
fromisoformat(s) ==
    << s[1] * 1000 + s[2] * 100 + s[3] * 10 + s[4], s[6] * 10 + s[7],
       s[9] * 10 + s[10] >>

\* min() of two dates
MinDate(a, b) == IF toordinal(a) <= toordinal(b) THEN a ELSE b

-----------------------------------------------------------------------------
(* WindsorClient._make_chunks                                              *)

RECURSIVE make_chunks_loop(_, _, _, _)
make_chunks_loop(cursor, d_to, chunk_days, acc) ==
    IF toordinal(cursor) <= toordinal(d_to)
    THEN LET chunk_end == MinDate(AddDays(cursor, chunk_days - 1), d_to)
         IN  make_chunks_loop(AddDays(chunk_end, 1), d_to, chunk_days,
                 Append(acc, << isoformat(cursor), isoformat(chunk_end) >>))
    ELSE acc

\* The slip of a chunk that ends chunk_days after its start instead of
\* chunk_days - 1.
make_chunks_long(df, dt, chunk_days) ==
    make_chunks_loop(fromisoformat(df), fromisoformat(dt), chunk_days + 1, << >>)

_make_chunks(df, dt, chunk_days) ==
    make_chunks_loop(fromisoformat(df), fromisoformat(dt), chunk_days, << >>)

-----------------------------------------------------------------------------
(* The catalogs.                                                           *)

Range(s) == { s[i] : i \in DOMAIN s }

_OPTIONAL_GROUPS ==
    << << "video_p25_watched", "video_p50_watched", "video_p75_watched",
          "video_p100_watched", "video_thruplay_watched" >>,
       << "video_views" >>,
       << "actions_post_reaction", "actions_comment", "actions_post_save" >>,
       << "actions_post_engagement" >>,
       << "actions_complete_registration", "actions_view_content" >>,
       << "actions_add_to_cart", "actions_initiate_checkout" >>,
       << "actions_link_click", "actions_landing_page_view" >>,
       << "actions_lead" >>,
       << "quality_ranking", "engagement_rate_ranking",
          "conversion_rate_ranking" >>,
       << "promoted_post_full_picture" >>,
       << "desktop_feed_standard_preview_url" >>,
       << "image_url", "thumbnail_url" >>,
       << "body", "bodies", "title", "name" >>,
       << "campaign_objective" >>,
       << "publisher_platform", "platform_position" >>,
       << "age", "gender" >>,
       << "region" >> >>

_GA4_OPTIONAL_GROUPS ==
    << << "eventCount", "event_count" >>,
       << "sessionsPerUser", "sessions_per_user" >>,
       << "averageSessionDuration", "average_session_duration" >>,
       << "screenPageViews", "screen_page_views" >>,
       << "transactionRevenue", "transaction_revenue" >>,
       << "conversions" >>,
       << "engagementRate", "engagement_rate" >>,
       << "bounceRate", "bounce_rate" >>,
       << "newUsers", "new_users" >>,
       << "region" >>,
       << "country" >>,
       << "deviceCategory", "device_category" >>,
       << "pagePath", "page_path" >>,
       << "medium" >>,
       << "campaign" >>,
       << "source" >> >>

\* self._optional_groups, set by the constructor of the client's class.
optional_groups(c) ==
    IF c = "ga4" THEN _GA4_OPTIONAL_GROUPS ELSE _OPTIONAL_GROUPS

\* The columns coerced to numbers in every response.
NUMERIC_FIELDS ==
    { "impressions", "clicks", "spend", "ctr", "cpc", "cpm",
      "reach", "frequency",
      "actions_link_click", "actions_landing_page_view",
      "actions_add_to_cart", "actions_initiate_checkout",
      "actions_purchase", "action_values_purchase",
      "actions_lead", "actions_complete_registration",
      "actions_view_content",
      "actions_post_engagement", "actions_post_reaction",
      "actions_comment", "actions_post_save",
      "video_views", "video_p25_watched", "video_p50_watched",
      "video_p75_watched", "video_p100_watched",
      "video_thruplay_watched" }

_GA4_NUMERIC_FIELDS ==
    { "sessions", "users", "newUsers", "bounceRate", "engagementRate",
      "screenPageViews", "averageSessionDuration", "sessionsPerUser",
      "conversions", "transactionRevenue", "eventCount",
      "new_users", "bounce_rate", "engagement_rate",
      "screen_page_views", "average_session_duration", "sessions_per_user",
      "transaction_revenue", "event_count" }

\* self._numeric_fields of the client
numeric_fields(c) ==
    IF c = "ga4" THEN _GA4_NUMERIC_FIELDS ELSE NUMERIC_FIELDS

-----------------------------------------------------------------------------
(* _camel_to_snake: re.sub(r"(?<=[a-z0-9])([A-Z])", r"_\1", name).lower()  *)
(* A name is spelled out as its characters for the substitution.           *)

Upper == { "A", "B", "C", "D", "E", "F", "G", "H", "I", "J", "K", "L", "M",
           "N", "O", "P", "Q", "R", "S", "T", "U", "V", "W", "X", "Y", "Z" }

LowerOrDigit ==
    { "a", "b", "c", "d", "e", "f", "g", "h", "i", "j", "k", "l", "m",
      "n", "o", "p", "q", "r", "s", "t", "u", "v", "w", "x", "y", "z",
      "0", "1", "2", "3", "4", "5", "6", "7", "8", "9" }

lower(ch) ==
    CASE ch = "A" -> "a" [] ch = "B" -> "b" [] ch = "C" -> "c" [] ch = "D" -> "d"
      [] ch = "E" -> "e" [] ch = "F" -> "f" [] ch = "G" -> "g" [] ch = "H" -> "h"
      [] ch = "I" -> "i" [] ch = "J" -> "j" [] ch = "K" -> "k" [] ch = "L" -> "l"
      [] ch = "M" -> "m" [] ch = "N" -> "n" [] ch = "O" -> "o" [] ch = "P" -> "p"
      [] ch = "Q" -> "q" [] ch = "R" -> "r" [] ch = "S" -> "s" [] ch = "T" -> "t"
      [] ch = "U" -> "u" [] ch = "V" -> "v" [] ch = "W" -> "w" [] ch = "X" -> "x"
      [] ch = "Y" -> "y" [] ch = "Z" -> "z" [] OTHER -> ch

RECURSIVE snake_chars(_, _)
snake_chars(s, i) ==
    IF i > Len(s) THEN << >>
    ELSE (IF i > 1 /\ s[i] \in Upper /\ s[i - 1] \in LowerOrDigit
          THEN << "_", lower(s[i]) >> ELSE << lower(s[i]) >>)
         \o snake_chars(s, i + 1)

\* The spelling of the GA4 field names the model requests or gets back.
Spelling ==
    [ date |-> << "d", "a", "t", "e" >>,
      sessions |-> << "s", "e", "s", "s", "i", "o", "n", "s" >>,
      conversions |-> << "c", "o", "n", "v", "e", "r", "s", "i", "o", "n", "s" >>,
      screenPageViews |-> << "s", "c", "r", "e", "e", "n", "P", "a", "g", "e",
                             "V", "i", "e", "w", "s" >>,
      screen_page_views |-> << "s", "c", "r", "e", "e", "n", "_", "p", "a", "g",
                               "e", "_", "v", "i", "e", "w", "s" >>,
      bounceRate |-> << "b", "o", "u", "n", "c", "e", "R", "a", "t", "e" >>,
      bounce_rate |-> << "b", "o", "u", "n", "c", "e", "_", "r", "a", "t", "e" >> ]

NameSpelled(cs) == CHOOSE n \in DOMAIN Spelling : Spelling[n] = cs

_camel_to_snake(name) == NameSpelled(snake_chars(Spelling[name], 1))

\* [_camel_to_snake(f) for f in fields]
snake_fields(fs) == [ i \in DOMAIN fs |-> _camel_to_snake(fs[i]) ]

\* The slip of a rename left out.
rename_back_skipped(cols, fs) == cols

\* df.rename(columns = {_camel_to_snake(f): f for f in fields
\*                      if _camel_to_snake(f) != f})
\* A dict keeps the last value given to a key.
rename_back(cols, fs) ==
    LET keys == { _camel_to_snake(fs[i]) :
                    i \in { j \in DOMAIN fs : _camel_to_snake(fs[j]) # fs[j] } }
        last(k) == CHOOSE i \in DOMAIN fs :
                     /\ _camel_to_snake(fs[i]) = k
                     /\ \A j \in DOMAIN fs : _camel_to_snake(fs[j]) = k => j <= i
    IN  [ i \in DOMAIN cols |->
            IF cols[i] \in keys THEN fs[last(cols[i])] ELSE cols[i] ]

-----------------------------------------------------------------------------
(* The field lists the model calls _fetch with.                            *)

\* get_accounts
ACCOUNT_FIELDS == << "account_name", "spend" >>

\* get_campaign_daily
CAMPAIGN_DAILY_FIELDS ==
    << "date", "campaign", "campaign_objective", "impressions", "clicks",
       "spend", "reach", "actions_purchase", "action_values_purchase" >>

\* A list with fields of three fallback groups, two of them in one group.
VIDEO_FIELDS ==
    << "date", "spend", "video_views", "video_p25_watched",
       "video_p100_watched", "actions_lead" >>

\* GA4 lists, in the camelCase the facade methods use.
GA4_PAGE_FIELDS == << "date", "sessions", "screenPageViews", "conversions" >>

GA4_RATE_FIELDS == << "date", "bounceRate" >>

FieldLists(c) ==
    IF c = "ga4" THEN { GA4_PAGE_FIELDS, GA4_RATE_FIELDS }
    ELSE { ACCOUNT_FIELDS, CAMPAIGN_DAILY_FIELDS, VIDEO_FIELDS }

\* The field lists of the facade methods of WindsorClient and of GA4Client.
FACADE_FIELDS ==
    {
      \* get_accounts
      << "account_name", "spend" >>,
      \* get_campaign_data
      << "date", "account_name", "campaign", "campaign_id",
         "campaign_status", "campaign_objective", "impressions", "clicks",
         "spend", "ctr", "cpc", "cpm", "reach", "frequency",
         "actions_link_click", "actions_landing_page_view",
         "actions_add_to_cart", "actions_initiate_checkout",
         "actions_purchase", "action_values_purchase", "actions_lead",
         "actions_complete_registration", "actions_view_content",
         "actions_post_engagement", "actions_post_reaction",
         "actions_comment", "actions_post_save", "video_views",
         "video_p25_watched", "video_p50_watched", "video_p75_watched",
         "video_p100_watched", "video_thruplay_watched" >>,
      \* get_campaign_daily
      << "date", "campaign", "campaign_objective", "impressions", "clicks",
         "spend", "reach", "actions_purchase", "action_values_purchase" >>,
      \* get_adset_data
      << "date", "account_name", "campaign", "campaign_id",
         "campaign_objective", "adset_name", "adset_id", "adset_status",
         "impressions", "clicks", "spend", "ctr", "cpc", "cpm", "reach",
         "frequency", "actions_link_click", "actions_landing_page_view",
         "actions_add_to_cart", "actions_initiate_checkout",
         "actions_purchase", "action_values_purchase", "actions_lead",
         "actions_complete_registration", "actions_view_content",
         "actions_post_engagement", "actions_post_reaction",
         "actions_comment", "actions_post_save", "video_views",
         "video_p25_watched", "video_p50_watched", "video_p75_watched",
         "video_p100_watched", "video_thruplay_watched" >>,
      \* get_ad_data
      << "date", "account_name", "campaign", "campaign_id",
         "campaign_objective", "adset_name", "ad_name", "ad_id",
         "ad_status", "impressions", "clicks", "spend", "ctr", "cpc",
         "cpm", "reach", "frequency", "actions_link_click",
         "actions_landing_page_view", "actions_add_to_cart",
         "actions_initiate_checkout", "actions_purchase",
         "action_values_purchase", "actions_lead",
         "actions_complete_registration", "actions_view_content",
         "actions_post_engagement", "actions_post_reaction",
         "actions_comment", "actions_post_save", "video_views",
         "video_p25_watched", "video_p50_watched", "video_p75_watched",
         "video_p100_watched", "video_thruplay_watched", "quality_ranking",
         "engagement_rate_ranking", "conversion_rate_ranking", "image_url",
         "thumbnail_url", "promoted_post_full_picture",
         "desktop_feed_standard_preview_url", "body", "title", "name",
         "object_type", "creative_id" >>,
      \* get_ad_daily
      << "date", "ad_name", "impressions", "clicks", "spend", "frequency" >>,
      \* get_demo_data
      << "date", "campaign", "campaign_objective", "age", "gender",
         "impressions", "clicks", "spend", "ctr", "cpc", "cpm", "reach",
         "frequency", "actions_link_click", "actions_landing_page_view",
         "actions_add_to_cart", "actions_initiate_checkout",
         "actions_purchase", "action_values_purchase", "actions_lead",
         "actions_complete_registration", "actions_view_content" >>,
      \* get_placement_data
      << "date", "campaign", "campaign_objective", "publisher_platform",
         "platform_position", "impressions", "clicks", "spend", "ctr",
         "cpc", "cpm", "reach", "frequency", "actions_link_click",
         "actions_landing_page_view", "actions_add_to_cart",
         "actions_initiate_checkout", "actions_purchase",
         "action_values_purchase", "actions_lead",
         "actions_complete_registration", "actions_view_content" >>,
      \* get_region_data
      << "date", "campaign", "campaign_objective", "region", "impressions",
         "clicks", "spend", "ctr", "cpc", "cpm", "reach", "frequency",
         "actions_link_click", "actions_landing_page_view",
         "actions_add_to_cart", "actions_initiate_checkout",
         "actions_purchase", "action_values_purchase", "actions_lead",
         "actions_complete_registration", "actions_view_content" >> }

GA4_FACADE_FIELDS ==
    {
      \* get_ga4_traffic
      << "date", "source", "medium", "campaign", "sessions", "users",
         "newUsers", "bounceRate", "engagementRate", "screenPageViews",
         "averageSessionDuration", "sessionsPerUser" >>,
      \* get_ga4_conversions
      << "date", "source", "campaign", "sessions", "conversions",
         "transactionRevenue", "users", "eventCount" >>,
      \* get_ga4_device
      << "date", "deviceCategory", "sessions", "users", "bounceRate",
         "engagementRate", "conversions", "transactionRevenue",
         "screenPageViews" >>,
      \* get_ga4_geo
      << "date", "country", "region", "sessions", "users", "conversions",
         "transactionRevenue", "bounceRate" >>,
      \* get_ga4_pages
      << "date", "pagePath", "screenPageViews", "sessions", "users",
         "bounceRate", "engagementRate", "averageSessionDuration" >>,
      \* get_ga4_daily
      << "date", "source", "sessions", "users", "conversions",
         "transactionRevenue", "bounceRate", "engagementRate" >> }

\* The lists the facade methods of a client pass to _fetch.
facade_fields(c) == IF c = "ga4" THEN GA4_FACADE_FIELDS ELSE FACADE_FIELDS

-----------------------------------------------------------------------------
(* Values: a table (pandas.DataFrame) is its column names, its number of   *)
(* rows and the columns that hold a missing marker (NaN) in some row; an   *)
(* exception is its class and, for an HTTPError, the status of the         *)
(* response it was raised for.                                             *)

NoResult ==
    [ kind |-> "none", cols |-> << >>, nrows |-> 0, nulls |-> {},
      exc |-> "", status |-> 0 ]

\* A table with a missing marker in the columns of nulls.
Merged(cols, nrows, nulls) ==
    [ kind |-> "table", cols |-> cols, nrows |-> nrows, nulls |-> nulls,
      exc |-> "", status |-> 0 ]

\* A table with a value in every cell.
Table(cols, nrows) == Merged(cols, nrows, {})

Raised(exc, status) ==
    [ kind |-> "error", cols |-> << >>, nrows |-> 0, nulls |-> {},
      exc |-> exc, status |-> status ]

\* What a task did, in order: its requests (the list sent, the fields
\* parameter of the invocation that sent it, the outcome) and its sleeps.
RequestEvent(tk, sent, status, exc, data) ==
    [ ev |-> "request", sent |-> sent, asked |-> tk.cur, from |-> tk.from,
      to |-> tk.to, call |-> tk.call, attempt |-> tk.attempt, fallback |-> tk.fallback,
      status |-> status, exc |-> exc, data |-> data, secs |-> 0 ]

NoData == [ kind |-> "none", cols |-> << >> ]

SleepEvent(tk, secs) ==
    [ ev |-> "sleep", sent |-> << >>, asked |-> tk.cur, from |-> tk.from,
      to |-> tk.to, call |-> tk.call, attempt |-> tk.attempt, fallback |-> tk.fallback,
      status |-> 0, exc |-> "", data |-> NoData, secs |-> secs ]

-----------------------------------------------------------------------------
(* The upstream: what a request can get.                                   *)

ConnectivityErrors == { "Timeout", "ConnectionError" }

\* Statuses for which raise_for_status raises, other than 400.
OtherErrorStatuses == { 500 }

\* The plain body: rows with every requested field.
PlainBody(sent) == [ kind |-> "rows", cols |-> sent ]

\* The body of a 2xx response: no "data" key, an empty list, or rows whose
\* keys are the requested fields but for up to MaxOmitted of them.
Bodies(sent) ==
    { [ kind |-> "nokey", cols |-> << >> ], [ kind |-> "empty", cols |-> << >> ] }
    \cup { [ kind |-> "rows",
             cols |-> SelectSeq(sent, LAMBDA f : f \notin omitted) ] :
           omitted \in { o \in SUBSET Range(sent) : Cardinality(o) <= MaxOmitted } }

-----------------------------------------------------------------------------
(* WindsorClient._fetch_single and GA4Client._fetch_single, as what a task *)
(* does with the outcome of a request.                                     *)

NewTask(fs, df, dt, pc) ==
    [ pc |-> pc, fields |-> fs, from |-> df, to |-> dt,
      call |-> 1,            \* 1: super()._fetch_single(fields), 2: (snake_fields)
      cur |-> fs,            \* the fields parameter of that invocation
      attempt |-> 0, fallback |-> FALSE, remaining |-> << >>, gi |-> 1,
      last_exc |-> "", trace |-> << >>, result |-> NoResult ]

\* The field list of the request a task sends next.
Sending(tk) == IF tk.fallback THEN tk.remaining ELSE tk.cur

\* The slip of a backoff that does not grow.
backoff_flat(attempt) == 3

\* time.sleep(3 * (attempt + 1))
backoff(attempt) == 3 * (attempt + 1)

\* The slip of exhausted retries answered with an empty table.
on_connectivity_error_swallowed(tk, exc) ==
    IF tk.attempt < _MAX_RETRIES - 1
    THEN [ tk EXCEPT !.last_exc = exc, !.pc = "sleep" ]
    ELSE [ tk EXCEPT !.last_exc = exc, !.pc = "done", !.result = Table(tk.cur, 0) ]

\* The slip of a retry test that lets one attempt too many through.
on_connectivity_error_extra(tk, exc) ==
    IF tk.attempt < _MAX_RETRIES
    THEN [ tk EXCEPT !.last_exc = exc, !.pc = "sleep" ]
    ELSE [ tk EXCEPT !.last_exc = exc, !.pc = "done", !.result = Raised(exc, 0) ]

\* except (Timeout, ConnectionError) as exc
on_connectivity_error(tk, exc) ==
    IF tk.attempt < _MAX_RETRIES - 1
    THEN [ tk EXCEPT !.last_exc = exc, !.pc = "sleep" ]
    ELSE [ tk EXCEPT !.last_exc = exc, !.pc = "done", !.result = Raised(exc, 0) ]

\* The slip of an error status retried like a connectivity failure.
on_http_error_retried(c, tk, status) ==
    IF status # 400 /\ tk.attempt < _MAX_RETRIES - 1
    THEN [ tk EXCEPT !.pc = "sleep" ]
    ELSE IF c = "ga4" /\ tk.call = 1
    THEN [ tk EXCEPT !.call = 2, !.cur = snake_fields(tk.fields), !.attempt = 0,
                     !.fallback = FALSE, !.remaining = << >>, !.gi = 1,
                     !.last_exc = "" ]
    ELSE [ tk EXCEPT !.pc = "done", !.result = Raised("HTTPError", status) ]

\* The slip of a dialect retry taken after every HTTP error.
on_http_error_again(c, tk, status) ==
    IF c = "ga4"
    THEN [ tk EXCEPT !.call = 2, !.cur = snake_fields(tk.fields), !.attempt = 0,
                     !.fallback = FALSE, !.remaining = << >>, !.gi = 1,
                     !.last_exc = "" ]
    ELSE [ tk EXCEPT !.pc = "done", !.result = Raised("HTTPError", status) ]

\* The slip of an error status answered with an empty table.
on_http_error_swallowed(c, tk, status) ==
    [ tk EXCEPT !.pc = "done", !.result = Table(tk.cur, 0) ]

\* resp.raise_for_status() raises HTTPError.  WindsorClient lets it through;
\* GA4Client catches the one of its first invocation and starts the second.
on_http_error(c, tk, status) ==
    IF c = "ga4" /\ tk.call = 1
    THEN [ tk EXCEPT !.call = 2, !.cur = snake_fields(tk.fields), !.attempt = 0,
                     !.fallback = FALSE, !.remaining = << >>, !.gi = 1,
                     !.last_exc = "" ]
    ELSE [ tk EXCEPT !.pc = "done", !.result = Raised("HTTPError", status) ]

\* The slip of a removal that stops at the first field of the group.
without_first(remaining, group) ==
    LET hit == { i \in DOMAIN remaining : remaining[i] \in Range(group) }
        first == CHOOSE i \in hit : \A j \in hit : i <= j
    IN  IF hit = { } THEN remaining
        ELSE [ i \in 1 .. (Len(remaining) - 1) |->
                 IF i < first THEN remaining[i] ELSE remaining[i + 1] ]

\* The slip of a filter that keeps the fields of the group.
without_inverted(remaining, group) ==
    SelectSeq(remaining, LAMBDA f : f \in Range(group))

\* remaining = [f for f in remaining if f not in group]
without(remaining, group) ==
    SelectSeq(remaining, LAMBDA f : f \notin Range(group))

\* The slip of a resubmission for every group inspected.
next_group_always(remaining, groups, gi) ==
    IF gi > Len(groups) THEN 0 ELSE gi

\* The next group of the loop, from index gi on, that takes a field out of
\* remaining; 0 when the loop ends without one.
RECURSIVE next_group(_, _, _)
next_group(remaining, groups, gi) ==
    IF gi > Len(groups) THEN 0
    ELSE IF Len(without(remaining, groups[gi])) < Len(remaining) THEN gi
    ELSE next_group(remaining, groups, gi + 1)

\* The slip of a fallback that drops every optional field at once.
on_rejected_drop_all(c, tk) ==
    LET remaining == IF tk.fallback THEN tk.remaining ELSE tk.cur
        optional == UNION { Range(optional_groups(c)[g]) :
                            g \in DOMAIN optional_groups(c) }
        rest == SelectSeq(remaining, LAMBDA f : f \notin optional)
    IN  IF Len(rest) = Len(remaining) THEN on_http_error(c, tk, 400)
        ELSE [ tk EXCEPT !.fallback = TRUE, !.remaining = rest,
                         !.gi = Len(optional_groups(c)) + 1 ]

\* The slip of a fallback that filters the caller's list itself
\* (remaining = fields, fields[:] = [...]) in place of a copy.
on_rejected_in_place(c, tk) ==
    LET remaining == IF tk.fallback THEN tk.remaining ELSE tk.cur
        g == next_group(remaining, optional_groups(c),
                        IF tk.fallback THEN tk.gi ELSE 1)
    IN  IF g = 0 THEN on_http_error(c, tk, 400)
        ELSE [ tk EXCEPT !.fallback = TRUE,
                         !.remaining = without(remaining, optional_groups(c)[g]),
                         !.fields = without(remaining, optional_groups(c)[g]),
                         !.gi = g + 1 ]

\* A response with status 400: the fallback loop starts (remaining =
\* list(fields)) or goes on, up to its next request; when no group is left
\* the last response is the one raise_for_status sees.
on_rejected(c, tk) ==
    LET remaining == IF tk.fallback THEN tk.remaining ELSE tk.cur
        g == next_group(remaining, optional_groups(c),
                        IF tk.fallback THEN tk.gi ELSE 1)
    IN  IF g = 0 THEN on_http_error(c, tk, 400)
        ELSE [ tk EXCEPT !.fallback = TRUE,
                         !.remaining = without(remaining, optional_groups(c)[g]),
                         !.gi = g + 1 ]

\* The slip of an empty table built from the list the upstream accepted.
on_success_sent_columns(c, tk, data) ==
    LET df == IF data.kind # "rows" THEN Table(data.cols, 0)
              ELSE Table(data.cols, 1)
    IN  [ tk EXCEPT !.pc = "done", !.result = df ]

\* A 2xx response: the table _fetch_single returns.  GA4Client renames the
\* columns of its second invocation back; _normalise_rates keeps the columns.
on_success(c, tk, data) ==
    LET df == IF data.kind # "rows" THEN Table(tk.cur, 0)
              ELSE Table(data.cols, 1)
        out == IF c = "ga4" /\ tk.call = 2
               THEN Table(rename_back(df.cols, tk.fields), df.nrows)
               ELSE df
    IN  [ tk EXCEPT !.pc = "done", !.result = out ]

Logged(tk, status, exc, data) ==
    [ tk EXCEPT !.trace = Append(@, RequestEvent(tk, Sending(tk), status, exc, data)) ]

Running(t) == t \in DOMAIN tasks /\ tasks[t].pc = "request"

\* requests.get raises Timeout or ConnectionError.
RequestFails(t, exc) ==
    /\ Running(t)
    /\ faultsLeft > 0
    /\ faultsLeft' = faultsLeft - 1
    /\ tasks' = [ tasks EXCEPT ![t] =
                    on_connectivity_error(Logged(@, 0, exc, NoData), exc) ]
    /\ UNCHANGED << client, fields, progress_cb, date_from, date_to,
                    date_aggregation, fpc, chunks, yielded, done, dfs, pending,
                    cb_log, outcome,
                    frames >>

\* The response has status 400.
RequestRejected(t) ==
    /\ Running(t)
    /\ faultsLeft > 0
    /\ faultsLeft' = faultsLeft - 1
    /\ tasks' = [ tasks EXCEPT ![t] =
                    on_rejected(client, Logged(@, 400, "", NoData)) ]
    /\ UNCHANGED << client, fields, progress_cb, date_from, date_to,
                    date_aggregation, fpc, chunks, yielded, done, dfs, pending,
                    cb_log, outcome,
                    frames >>

\* The response has another error status.
RequestErrors(t, status) ==
    /\ Running(t)
    /\ faultsLeft > 0
    /\ faultsLeft' = faultsLeft - 1
    /\ tasks' = [ tasks EXCEPT ![t] =
                    on_http_error(client, Logged(@, status, "", NoData), status) ]
    /\ UNCHANGED << client, fields, progress_cb, date_from, date_to,
                    date_aggregation, fpc, chunks, yielded, done, dfs, pending,
                    cb_log, outcome,
                    frames >>

\* The response has status 200.
RequestAccepted(t, data) ==
    /\ Running(t)
    /\ IF data = PlainBody(Sending(tasks[t]))
       THEN faultsLeft' = faultsLeft
       ELSE faultsLeft > 0 /\ faultsLeft' = faultsLeft - 1
    /\ tasks' = [ tasks EXCEPT ![t] =
                    on_success(client, Logged(@, 200, "", data), data) ]
    /\ UNCHANGED << client, fields, progress_cb, date_from, date_to,
                    date_aggregation, fpc, chunks, yielded, done, dfs, pending,
                    cb_log, outcome,
                    frames >>

\* The backoff sleep ends and the next attempt starts.
Sleep(t) ==
    /\ t \in DOMAIN tasks
    /\ tasks[t].pc = "sleep"
    /\ tasks' = [ tasks EXCEPT ![t] =
                    [ @ EXCEPT !.trace = Append(@, SleepEvent(tasks[t],
                                                   backoff(tasks[t].attempt))),
                               !.attempt = @ + 1, !.fallback = FALSE,
                               !.remaining = << >>, !.gi = 1, !.pc = "request" ] ]
    /\ UNCHANGED << client, fields, progress_cb, date_from, date_to,
                    date_aggregation, fpc, chunks, yielded, done, dfs, pending,
                    cb_log, outcome, faultsLeft,
                    frames >>

-----------------------------------------------------------------------------
(* WindsorClient._fetch, which GA4Client inherits.                         *)

\* The slip of a test that forgets the aggregation.
single_shot_short_only(span, agg) == span <= _QUARTER_DAYS

\* span <= _QUARTER_DAYS or date_aggregation in ("month", "year")
single_shot(span, agg) ==
    span <= _QUARTER_DAYS \/ agg \in { "month", "year" }

\* pd.concat(dfs, ignore_index=True): the columns in the order they first
\* appear, the rows of all the parts; a column that a part does not have is
\* filled with the missing marker in the rows of that part (every part that
\* is concatenated has a row: empty parts are not appended).
RECURSIVE concat(_)
concat(parts) ==
    IF Len(parts) = 1 THEN parts[1]
    ELSE LET head == concat(SubSeq(parts, 1, Len(parts) - 1))
             last == parts[Len(parts)]
         IN  Merged(head.cols \o SelectSeq(last.cols,
                                           LAMBDA f : f \notin Range(head.cols)),
                    head.nrows + last.nrows,
                    head.nulls \cup last.nulls
                        \cup (Range(head.cols) \ Range(last.cols))
                        \cup (Range(last.cols) \ Range(head.cols)))

\* The slip of a callback given the count before done += 1.
report_before_increment(cb, log, completed, total) ==
    IF cb THEN Append(log, << completed - 1, total >>) ELSE log

\* if progress_cb: progress_cb(completed, total)
report(cb, log, completed, total) ==
    IF cb THEN Append(log, << completed, total >>) ELSE log

\* _fetch up to the call of _fetch_single (single-shot) or up to the loop
\* over as_completed (chunked): every chunk is submitted to the pool.
FetchStart ==
    /\ fpc = "start"
    /\ LET span == DaysBetween(fromisoformat(date_to), fromisoformat(date_from))
           cs == _make_chunks(date_from, date_to, _QUARTER_DAYS)
       IN  IF single_shot(span, date_aggregation)
           THEN /\ cb_log' = report(progress_cb, cb_log, 1, 1)
                /\ tasks' = << NewTask(fields, date_from, date_to, "request") >>
                /\ chunks' = chunks
                /\ fpc' = "single"
           ELSE /\ cb_log' = cb_log
                /\ chunks' = cs
                /\ tasks' = [ i \in 1 .. Len(cs) |->
                                NewTask(fields, cs[i][1], cs[i][2], "queued") ]
                /\ fpc' = "collect"
    /\ UNCHANGED << client, fields, progress_cb, date_from, date_to,
                    date_aggregation, yielded, done, dfs, pending, outcome,
                    faultsLeft,
                    frames >>

\* The single-shot path hands on what _fetch_single returned or raised.
SingleReturn ==
    /\ fpc = "single"
    /\ tasks[1].pc = "done"
    /\ outcome' = tasks[1].result
    /\ fpc' = "finished"
    /\ UNCHANGED << client, fields, progress_cb, date_from, date_to,
                    date_aggregation, chunks, tasks, yielded, done, dfs, pending,
                    cb_log, faultsLeft,
                    frames >>

InFlight == { t \in DOMAIN tasks : tasks[t].pc \in { "request", "sleep" } }

\* The slip of a pool that starts a thread for every work item.
pool_unbounded(running) == TRUE

\* ThreadPoolExecutor(max_workers=_WORKERS): a queued work item starts when
\* fewer than max_workers work items are running.
pool_can_start(running) == running < _WORKERS

\* The slip of a result taken without the worker's exception.
fut_raises_never(result) == FALSE

\* fut.result() raises when the worker raised.
fut_raises(result) == result.kind = "error"

\* A pool thread takes the oldest queued work item; the pool has at most
\* max_workers threads.
WorkerStart(t) ==
    /\ fpc \in { "collect", "exit" }
    /\ t \in DOMAIN tasks
    /\ tasks[t].pc = "queued"
    /\ \A u \in DOMAIN tasks : u < t => tasks[u].pc # "queued"
    /\ pool_can_start(Cardinality(InFlight))
    /\ tasks' = [ tasks EXCEPT ![t].pc = "request" ]
    /\ UNCHANGED << client, fields, progress_cb, date_from, date_to,
                    date_aggregation, fpc, chunks, yielded, done, dfs, pending,
                    cb_log, outcome, faultsLeft,
                    frames >>

\* One turn of the loop over as_completed(futures), for a finished future
\* not yet yielded; fut.result() raises what the worker raised.
AsCompleted(t) ==
    /\ fpc = "collect"
    /\ t \in DOMAIN tasks
    /\ t \notin yielded
    /\ tasks[t].pc = "done"
    /\ yielded' = yielded \cup { t }
    /\ done' = done + 1
    /\ cb_log' = report(progress_cb, cb_log, done + 1, Len(chunks))
    /\ IF fut_raises(tasks[t].result)
       THEN /\ pending' = tasks[t].result
            /\ fpc' = "exit"
            /\ dfs' = dfs
       ELSE /\ pending' = pending
            /\ fpc' = fpc
            /\ dfs' = IF tasks[t].result.nrows > 0
                      THEN Append(dfs, tasks[t].result) ELSE dfs
    /\ UNCHANGED << client, fields, progress_cb, date_from, date_to,
                    date_aggregation, chunks, tasks, outcome, faultsLeft,
                    frames >>

\* The slip of a merge that does not wait for the last future.
FetchReturn_early ==
    /\ fpc = "collect"
    /\ yielded # { }
    /\ outcome' = IF dfs = << >> THEN Table(fields, 0) ELSE concat(dfs)
    /\ fpc' = "finished"
    /\ UNCHANGED << client, fields, progress_cb, date_from, date_to,
                    date_aggregation, chunks, tasks, yielded, done, dfs, pending,
                    cb_log, faultsLeft,
                    frames >>

\* Every future was yielded: the with block ends and the parts are merged.
FetchReturn ==
    /\ fpc = "collect"
    /\ yielded = DOMAIN tasks
    /\ outcome' = IF dfs = << >> THEN Table(fields, 0) ELSE concat(dfs)
    /\ fpc' = "finished"
    /\ UNCHANGED << client, fields, progress_cb, date_from, date_to,
                    date_aggregation, chunks, tasks, yielded, done, dfs, pending,
                    cb_log, faultsLeft,
                    frames >>

\* The slip of a pool left without waiting for its work items.
PoolExit_nowait ==
    /\ fpc = "exit"
    /\ outcome' = pending
    /\ fpc' = "finished"
    /\ UNCHANGED << client, fields, progress_cb, date_from, date_to,
                    date_aggregation, chunks, tasks, yielded, done, dfs, pending,
                    cb_log, faultsLeft,
                    frames >>

\* An exception leaves the with block: the pool's shutdown(wait=True) returns
\* once every work item has run, and the exception reaches the caller.
PoolExit ==
    /\ fpc = "exit"
    /\ \A t \in DOMAIN tasks : tasks[t].pc = "done"
    /\ outcome' = pending
    /\ fpc' = "finished"
    /\ UNCHANGED << client, fields, progress_cb, date_from, date_to,
                    date_aggregation, chunks, tasks, yielded, done, dfs, pending,
                    cb_log, faultsLeft,
                    frames >>

\* _make_chunks applied on its own.
MakeChunks ==
    /\ fpc = "make_chunks"
    /\ chunks' = _make_chunks(date_from, date_to, _QUARTER_DAYS)
    /\ fpc' = "chunked"
    /\ UNCHANGED << client, fields, progress_cb, date_from, date_to,
                    date_aggregation, tasks, yielded, done, dfs, pending, cb_log,
                    outcome, faultsLeft,
                    frames >>

-----------------------------------------------------------------------------
(* GA4Client._normalise_rates.  A table with its values is a function from *)
(* its column names to its columns, a column the sequence of its values in *)
(* thousandths.  The columns it is given were made numeric by              *)
(* WindsorClient._fetch_single (every rate column is in                    *)
(* _GA4_NUMERIC_FIELDS), so pd.to_numeric(...).fillna(0) finds numbers.    *)

\* The 1.0 of vals.max() <= 1.0, in thousandths.
One == 1000

\* for col in ("bounceRate", "engagementRate", "bounce_rate", "engagement_rate")
RATE_COLUMNS == { "bounceRate", "engagementRate", "bounce_rate", "engagement_rate" }

\* vals.max()
Max(vals) == CHOOSE v \in Range(vals) : \A w \in Range(vals) : w <= v

\* The slip of a strict comparison with 1.0.
normalise_column_strict(vals) ==
    IF Len(vals) > 0 /\ Max(vals) < One
    THEN [ i \in DOMAIN vals |-> vals[i] * 100 ]
    ELSE vals

\* if len(vals) > 0 and vals.max() <= 1.0: vals * 100, else vals
normalise_column(vals) ==
    IF Len(vals) > 0 /\ Max(vals) <= One
    THEN [ i \in DOMAIN vals |-> vals[i] * 100 ]
    ELSE vals

_normalise_rates(df) ==
    [ col \in DOMAIN df |->
        IF col \in RATE_COLUMNS THEN normalise_column(df[col]) ELSE df[col] ]

\* _normalise_rates applied to the table it returned last.
NormaliseRates ==
    /\ fpc = "normalise"
    /\ Len(frames) <= 2
    /\ frames' = Append(frames, _normalise_rates(frames[Len(frames)]))
    /\ UNCHANGED << client, fields, progress_cb, date_from, date_to,
                    date_aggregation, fpc, chunks, tasks, yielded, done, dfs,
                    pending, cb_log, outcome, faultsLeft >>

\* pd.concat of chunk tables that come with their values.
RECURSIVE concat_values(_)
concat_values(parts) ==
    IF Len(parts) = 1 THEN parts[1]
    ELSE LET head == concat_values(SubSeq(parts, 1, Len(parts) - 1))
             last == parts[Len(parts)]
         IN  [ col \in DOMAIN head |-> head[col] \o last[col] ]

\* len(df) of a table with its values.
Rows(df) == Len(df[CHOOSE col \in DOMAIN df : TRUE])

\* The future of chunk i of a GA4Client._fetch completes and is taken from
\* as_completed: GA4Client._fetch_single has normalised the table of the
\* chunk's response, frames[i], on its own, and the loop appends it unless
\* it is empty.
ChunkNormalised(i) ==
    /\ fpc = "collect_rates"
    /\ i \in DOMAIN frames
    /\ i \notin yielded
    /\ yielded' = yielded \cup { i }
    /\ done' = done + 1
    /\ dfs' = IF Rows(frames[i]) > 0
              THEN Append(dfs, [ chunk |-> i, df |-> _normalise_rates(frames[i]) ])
              ELSE dfs
    /\ UNCHANGED << client, fields, progress_cb, date_from, date_to,
                    date_aggregation, fpc, chunks, tasks, pending, cb_log,
                    outcome, faultsLeft, frames >>

\* Every future was yielded: the normalised chunk tables are merged.
MergeNormalised ==
    /\ fpc = "collect_rates"
    /\ yielded = DOMAIN frames
    /\ outcome' =
          [ kind |-> "table", cols |-> fields, nulls |-> { }, exc |-> "",
            status |-> 0,
            nrows |-> IF dfs = << >> THEN 0
                      ELSE Rows(concat_values([ k \in DOMAIN dfs |-> dfs[k].df ])),
            df |-> IF dfs = << >> THEN [ col \in Range(fields) |-> << >> ]
                   ELSE concat_values([ k \in DOMAIN dfs |-> dfs[k].df ]) ]
    /\ fpc' = "finished"
    /\ UNCHANGED << client, fields, progress_cb, date_from, date_to,
                    date_aggregation, chunks, tasks, yielded, done, dfs, pending,
                    cb_log, faultsLeft, frames >>

-----------------------------------------------------------------------------
(* The calls checked.                                                      *)

Clients == { "windsor", "ga4" }

Aggregations == { "none", "month", "year" }

FirstDay == << 2024, 1, 1 >>

ChunkStarts == { << 2023, 11, 15 >>, FirstDay }

\* The calls checked one request at a time, as << date_to - date_from,
\* date_aggregation >>: the longest short range at every granularity and a
\* long range aggregated by month or by year.
SingleCalls ==
    ({ _QUARTER_DAYS } \X Aggregations) \cup ({ LongSpan } \X { "month", "year" })

\* The same of the chunked calls: two chunks (the second one short, or
\* full) and more chunks than the pool has workers.
ChunkedSpans == { _QUARTER_DAYS + 1, 2 * _QUARTER_DAYS - 1, LongSpan }

\* The field lists of the chunked calls.
ChunkedFieldLists(c) ==
    IF c = "ga4" THEN { GA4_RATE_FIELDS } ELSE { ACCOUNT_FIELDS }

InitLocals ==
    /\ chunks = << >>
    /\ tasks = << >>
    /\ yielded = { }
    /\ done = 0
    /\ dfs = << >>
    /\ pending = NoResult
    /\ cb_log = << >>
    /\ outcome = NoResult
    /\ frames = << >>

\* One of the calls of SingleCalls, with an upstream that may fail it
\* MaxFaults times.
Init ==
    /\ client \in Clients
    /\ fields \in FieldLists(client)
    /\ progress_cb \in BOOLEAN
    /\ date_from = isoformat(FirstDay)
    /\ \E call \in SingleCalls :
         /\ date_to = isoformat(AddDays(FirstDay, call[1]))
         /\ date_aggregation = call[2]
    /\ fpc = "start"
    /\ faultsLeft = MaxFaults
    /\ InitLocals

TaskStep ==
    \E t \in DOMAIN tasks :
        \/ \E exc \in ConnectivityErrors : RequestFails(t, exc)
        \/ RequestRejected(t)
        \/ \E status \in OtherErrorStatuses : RequestErrors(t, status)
        \/ \E data \in Bodies(Sending(tasks[t])) : RequestAccepted(t, data)
        \/ Sleep(t)

Next ==
    \/ FetchStart
    \/ TaskStep
    \/ SingleReturn

Spec == Init /\ [][Next]_vars

\* The calls of Init at native granularity without a progress callback:
\* one _fetch_single invocation, request by request.
InitDaily == Init /\ date_aggregation = "none" /\ ~ progress_cb

SpecDaily == InitDaily /\ [][Next]_vars

\* The same with every request getting its response or its connectivity
\* failure, every sleep ending and every return taken.
SpecDailyFair == InitDaily /\ [][Next]_vars /\ WF_vars(Next)

\* A call at native granularity over a long range, with an upstream that
\* may fail it MaxChunkFaults times; the calls over the longest range are
\* WindsorClient's (GA4Client inherits _fetch) and give a progress callback.
InitChunked ==
    /\ client \in Clients
    /\ fields \in ChunkedFieldLists(client)
    /\ progress_cb \in BOOLEAN
    /\ date_aggregation = "none"
    /\ date_from = isoformat(FirstDay)
    /\ \E span \in ChunkedSpans :
         /\ progress_cb \/ span < 2 * _QUARTER_DAYS
         /\ client = "windsor" \/ span < 2 * _QUARTER_DAYS
         /\ date_to = isoformat(AddDays(FirstDay, span))
    /\ fpc = "start"
    /\ faultsLeft = MaxChunkFaults
    /\ InitLocals

NextChunked ==
    \/ FetchStart
    \/ \E t \in DOMAIN tasks : WorkerStart(t)
    \/ TaskStep
    \/ \E t \in DOMAIN tasks : AsCompleted(t)
    \/ FetchReturn
    \/ PoolExit

SpecFetch == InitChunked /\ [][NextChunked]_vars

\* _make_chunks on every range of up to MaxSpan days after a start date.
InitChunks ==
    /\ client = "windsor"
    /\ fields = ACCOUNT_FIELDS
    /\ progress_cb = FALSE
    /\ date_aggregation = "none"
    /\ \E start \in ChunkStarts, span \in 0 .. MaxSpan :
         /\ date_from = isoformat(start)
         /\ date_to = isoformat(AddDays(start, span))
    /\ fpc = "make_chunks"
    /\ faultsLeft = 0
    /\ InitLocals

NextChunks == MakeChunks

SpecChunks == InitChunks /\ [][NextChunks]_vars

\* The calls of both paths of _fetch.
InitBoth == Init \/ InitChunked

NextBoth == Next \/ NextChunked

SpecBoth == InitBoth /\ [][NextBoth]_vars

\* Values of a rate column: 0, 0.005, 0.5, 1.0, 1.001 and 50.
RateValues == { 0, 5, One \div 2, One, One + 1, 50 * One }

\* The columns of the tables given to _normalise_rates: a rate column next
\* to a column that is none, or two rate columns.
FrameColumns ==
    { { col, "sessions" } : col \in RATE_COLUMNS }
        \cup { { "bounceRate", "engagementRate" } }

\* The tables of up to MaxRows rows; the column that is no rate holds 1.0.
Frames ==
    UNION { { df \in [ cols -> UNION { [ 1 .. n -> RateValues ] : n \in 0 .. MaxRows } ] :
                /\ \A c1, c2 \in cols : Len(df[c1]) = Len(df[c2])
                /\ "sessions" \in cols =>
                       \A i \in DOMAIN df["sessions"] : df["sessions"][i] = One } :
            cols \in FrameColumns }

\* _normalise_rates on every table of Frames, and again on what it returned.
InitRates ==
    /\ client = "ga4"
    /\ fields = GA4_RATE_FIELDS
    /\ progress_cb = FALSE
    /\ date_aggregation = "none"
    /\ date_from = isoformat(FirstDay)
    /\ date_to = isoformat(FirstDay)
    /\ fpc = "normalise"
    /\ faultsLeft = 0
    /\ chunks = << >>
    /\ tasks = << >>
    /\ yielded = { }
    /\ done = 0
    /\ dfs = << >>
    /\ pending = NoResult
    /\ cb_log = << >>
    /\ outcome = NoResult
    /\ \E df \in Frames : frames = << df >>

NextRates == NormaliseRates

SpecRates == InitRates /\ [][NextRates]_vars

\* The tables of the responses to the chunks of a GA4 call: sessions and
\* bounceRate, up to MaxRows rows, and fewer for the last chunk.
ChunkFrames == { df \in Frames : DOMAIN df = { "sessions", "bounceRate" } }

LastChunkFrames == { df \in ChunkFrames : Rows(df) < MaxRows }

\* GA4Client._fetch at native granularity over a range of two chunks, with
\* an upstream that answers every chunk with a table of ChunkFrames.
InitMerge ==
    /\ client = "ga4"
    /\ fields = << "sessions", "bounceRate" >>
    /\ progress_cb = FALSE
    /\ date_aggregation = "none"
    /\ date_from = isoformat(FirstDay)
    /\ date_to = isoformat(AddDays(FirstDay, _QUARTER_DAYS + 1))
    /\ fpc = "collect_rates"
    /\ faultsLeft = 0
    /\ chunks = _make_chunks(date_from, date_to, _QUARTER_DAYS)
    /\ tasks = << >>
    /\ yielded = { }
    /\ done = 0
    /\ dfs = << >>
    /\ pending = NoResult
    /\ cb_log = << >>
    /\ outcome = NoResult
    /\ \E first \in ChunkFrames, last \in LastChunkFrames :
          frames = << first, last >>

NextMerge ==
    \/ \E i \in DOMAIN frames : ChunkNormalised(i)
    \/ MergeNormalised

SpecMerge == InitMerge /\ [][NextMerge]_vars

-----------------------------------------------------------------------------
(* What the properties read off a state.                                   *)

Requests(tk) == SelectSeq(tk.trace, LAMBDA e : e.ev = "request")

ConnFailed(e) == e.ev = "request" /\ e.exc # ""

Answered(e) == e.ev = "request" /\ e.exc = ""

Finished == fpc = "finished"

AllRequests == UNION { Range(Requests(tasks[t])) : t \in DOMAIN tasks }

NumRequests ==
    LET RECURSIVE Sum(_)
        Sum(n) == IF n = 0 THEN 0 ELSE Sum(n - 1) + Len(Requests(tasks[n]))
    IN  Sum(Len(tasks))

\* The day after d, by the calendar.
Tomorrow(d) ==
    IF d[3] < DaysInMonth(d[1], d[2]) THEN << d[1], d[2], d[3] + 1 >>
    ELSE IF d[2] < 12 THEN << d[1], d[2] + 1, 1 >>
    ELSE << d[1] + 1, 1, 1 >>

\* The calendar days of [a, b], both included, counted month by month.
RECURSIVE CalendarDays(_, _)
CalendarDays(a, b) ==
    IF a[1] = b[1] /\ a[2] = b[2] THEN b[3] - a[3] + 1
    ELSE (DaysInMonth(a[1], a[2]) - a[3] + 1)
         + CalendarDays(Tomorrow(<< a[1], a[2], DaysInMonth(a[1], a[2]) >>), b)

ChunkDays(c) == CalendarDays(fromisoformat(c[1]), fromisoformat(c[2]))

-----------------------------------------------------------------------------
(* C1.  _make_chunks(date_from, date_to, 90), for date_from <= date_to,     *)
(* tiles [date_from, date_to]: the first chunk starts at date_from, the    *)
(* last ends at date_to, each later chunk starts the day after the one     *)
(* before it ends, and every chunk covers at most 90 calendar days.        *)
C1_ChunksTile ==
    fpc = "chunked" =>
        /\ Len(chunks) >= 1
        /\ chunks[1][1] = date_from
        /\ chunks[Len(chunks)][2] = date_to
        /\ \A i \in 1 .. Len(chunks) : ChunkDays(chunks[i]) <= _QUARTER_DAYS
        /\ \A i \in 1 .. (Len(chunks) - 1) :
               fromisoformat(chunks[i + 1][1])
                   = Tomorrow(fromisoformat(chunks[i][2]))

\* A range over a leap day and a year's end, cut into four chunks, the last
\* one short.
C1_Witness ==
    /\ fpc = "chunked"
    /\ Len(chunks) = 4
    /\ ChunkDays(chunks[4]) < _QUARTER_DAYS
    /\ fromisoformat(date_from)[1] < fromisoformat(date_to)[1]

-----------------------------------------------------------------------------
-----------------------------------------------------------------------------
(* C3, as claimed.  A _fetch at native granularity over a range of more     *)
(* than 90 days, every request of which the upstream accepts, makes as     *)
(* many network calls as the range has 90-day tiles.                       *)
RangeDays == CalendarDays(fromisoformat(date_from), fromisoformat(date_to))

Tiles == (RangeDays + _QUARTER_DAYS - 1) \div _QUARTER_DAYS

C3_CallsEqualTiles ==
    ( /\ Finished
      /\ date_aggregation = "none"
      /\ RangeDays > _QUARTER_DAYS
      /\ \A e \in AllRequests : e.status = 200 )
    => NumRequests = Tiles

(* C3 on the chunked path (date_to more than 90 days after date_from),      *)
(* where it holds.                                                         *)
C3_ChunkedCallsEqualTiles ==
    ( /\ Finished
      /\ fpc # "start" /\ chunks # << >>
      /\ \A e \in AllRequests : e.status = 200 )
    => NumRequests = Tiles

-----------------------------------------------------------------------------
(* C4, as claimed.  Once a request of a logical call was sent without a     *)
(* field that the fallback removed, no later request of that call carries  *)
(* the field, also after a connectivity retry or the dialect retry.        *)
C4_NeverReAdds ==
    \A t \in DOMAIN tasks :
        LET r == Requests(tasks[t])
        IN  \A i, j \in DOMAIN r :
                (i < j /\ r[i].fallback) =>
                    \A f \in Range(r[1].sent) \cup Range(tasks[t].cur) :
                        ( /\ \E k \in 1 .. (i - 1) : f \in Range(r[k].sent)
                          /\ f \notin Range(r[i].sent) )
                        => f \notin Range(r[j].sent)

-----------------------------------------------------------------------------
(* C5, as claimed.  A table returned by _fetch_single has no column for a   *)
(* field that the finally accepted request did not carry, also when the    *)
(* response has zero rows.  Stated for WindsorClient, which renames no     *)
(* column.                                                                 *)
C5_NoExcludedColumn ==
    \A t \in DOMAIN tasks :
        ( /\ tasks[t].pc = "done"
          /\ tasks[t].result.kind = "table"
          /\ client = "windsor" )
        => LET r == Requests(tasks[t])
           IN  \A f \in Range(tasks[t].fields) :
                   f \notin Range(r[Len(r)].sent)
                       => f \notin Range(tasks[t].result.cols)

-----------------------------------------------------------------------------
(* C6.  The upstream of the claim: it answers 400 while a field of group   *)
(* g is in the request and 200 once none is.                               *)
RejectsWhile(tk, g) ==
    /\ Range(tk.fields) \cap Range(optional_groups(client)[g]) # { }
    /\ \A i \in DOMAIN tk.trace :
           Answered(tk.trace[i]) =>
               tk.trace[i].status =
                   IF Range(tk.trace[i].sent) \cap Range(optional_groups(client)[g])
                        # { }
                   THEN 400 ELSE 200

Accepted(tk) == Requests(tk)[Len(Requests(tk))]

Returned(tk) == tk.pc = "done" /\ tk.result.kind = "table"

(* C6, as claimed.  With that upstream the accepted request carries every  *)
(* requested field outside g.                                              *)
C6_KeepsAllOutsideGroup ==
    \A t \in DOMAIN tasks : \A g \in DOMAIN optional_groups(client) :
        (Returned(tasks[t]) /\ RejectsWhile(tasks[t], g)) =>
            Range(tasks[t].fields) \ Range(optional_groups(client)[g])
                \subseteq Range(Accepted(tasks[t]).sent)

(* C6, amended.  With that upstream the accepted request carries every     *)
(* requested field that is outside g and outside the groups that come      *)
(* before g in the fallback order.                                         *)
C6_KeepsAllOutsideGroupsUpTo ==
    \A t \in DOMAIN tasks : \A g \in DOMAIN optional_groups(client) :
        (Returned(tasks[t]) /\ RejectsWhile(tasks[t], g)) =>
            Range(tasks[t].fields)
                \ UNION { Range(optional_groups(client)[h]) : h \in 1 .. g }
                \subseteq Range(Accepted(tasks[t]).sent)

\* The upstream rejected while actions_lead was there; the accepted request
\* has lost video_views too.
C6_Witness ==
    \E t \in DOMAIN tasks : \E g \in DOMAIN optional_groups(client) :
        /\ Returned(tasks[t]) /\ RejectsWhile(tasks[t], g)
        /\ Accepted(tasks[t]).fallback
        /\ \E f \in Range(tasks[t].fields) :
               /\ f \notin Range(optional_groups(client)[g])
               /\ f \notin Range(Accepted(tasks[t]).sent)

-----------------------------------------------------------------------------
(* C7.  Every request carries, of each fallback group, either every field  *)
(* of the group that the invocation was asked for, or none of them.        *)
C7_GroupsRemovedWhole ==
    \A t \in DOMAIN tasks : \A i \in DOMAIN tasks[t].trace :
        LET e == tasks[t].trace[i]
        IN  e.ev = "request" =>
                \A g \in DOMAIN optional_groups(client) :
                    LET asked == Range(e.asked)
                                     \cap Range(optional_groups(client)[g])
                    IN  \/ asked \subseteq Range(e.sent)
                        \/ asked \cap Range(e.sent) = { }

\* A fallback request from which a group with two requested fields is gone.
C7_Witness ==
    \E t \in DOMAIN tasks : \E i \in DOMAIN tasks[t].trace :
        LET e == tasks[t].trace[i]
        IN  /\ e.ev = "request" /\ e.fallback
            /\ \E g \in DOMAIN optional_groups(client) :
                   LET asked == Range(e.asked)
                                    \cap Range(optional_groups(client)[g])
                   IN  Cardinality(asked) >= 2 /\ asked \cap Range(e.sent) = { }

-----------------------------------------------------------------------------
(* C8.  When the upstream answers 400 to the first request and to every    *)
(* fallback resubmission, WindsorClient._fetch_single raises the HTTPError *)
(* of the last response and returns no table.                              *)
C8_RejectedThroughoutRaises ==
    \A t \in DOMAIN tasks :
        ( /\ client = "windsor"
          /\ tasks[t].pc = "done"
          /\ \A i \in DOMAIN tasks[t].trace :
                 Answered(tasks[t].trace[i]) /\ tasks[t].trace[i].status = 400 )
        => /\ tasks[t].result = Raised("HTTPError", 400)
           /\ (fpc = "finished" => outcome = Raised("HTTPError", 400))

\* Three groups were dropped one after the other and the last resubmission
\* was rejected too.
C8_Witness ==
    /\ client = "windsor"
    /\ fpc = "finished"
    /\ outcome.kind = "error"
    /\ Len(tasks[1].trace) = 4
    /\ \A i \in DOMAIN tasks[1].trace : tasks[1].trace[i].status = 400

-----------------------------------------------------------------------------
(* C9.  When the first two attempts end in a connectivity failure and the  *)
(* third request is accepted, _fetch_single returns the table of the third *)
(* response and sleeps exactly twice, 3 and then 6 time units, each time   *)
(* between a failed attempt and the next one.                              *)
TableOf(e) ==
    IF e.data.kind = "rows" THEN Table(e.data.cols, 1) ELSE Table(e.sent, 0)

C9_TwoFailuresThenSuccess ==
    \A t \in DOMAIN tasks :
        LET r == Requests(tasks[t])
            tr == tasks[t].trace
        IN  ( /\ tasks[t].pc = "done"
              /\ Len(r) = 3
              /\ ConnFailed(r[1]) /\ ConnFailed(r[2])
              /\ Answered(r[3]) /\ r[3].status = 200 )
            => /\ Len(tr) = 5
               /\ tr[1] = r[1] /\ tr[3] = r[2] /\ tr[5] = r[3]
               /\ tr[2].ev = "sleep" /\ tr[2].secs = 3
               /\ tr[4].ev = "sleep" /\ tr[4].secs = 6
               /\ tasks[t].result = TableOf(r[3])

\* A timeout, a connection error, then rows.
C9_Witness ==
    \E t \in DOMAIN tasks :
        LET r == Requests(tasks[t])
        IN  /\ tasks[t].pc = "done"
            /\ Len(r) = 3
            /\ r[1].exc = "Timeout" /\ r[2].exc = "ConnectionError"
            /\ r[3].status = 200 /\ r[3].data.kind = "rows"
            /\ tasks[t].result.nrows = 1

-----------------------------------------------------------------------------
(* C10.  The connectivity failures of a task, and those that another       *)
(* attempt followed.                                                       *)
Failures(tk, calls) ==
    { i \in DOMAIN tk.trace : ConnFailed(tk.trace[i]) /\ tk.trace[i].call \in calls }

Retried(tk, calls) ==
    { i \in Failures(tk, calls) : ~ (i = Len(tk.trace) /\ tk.pc = "done") }

(* C10, as claimed.  In one logical fetch of either client at most two     *)
(* connectivity failures are followed by another attempt.                  *)
C10_ThreeAttemptsPerLogicalFetch ==
    \A t \in DOMAIN tasks : Cardinality(Retried(tasks[t], { 1, 2 })) <= 2

(* C10, amended.  In each invocation of WindsorClient._fetch_single (one   *)
(* per WindsorClient fetch; GA4Client makes a second one, with an attempt  *)
(* budget of its own, for the dialect retry) at most two connectivity      *)
(* failures are followed by a sleep and another attempt, and the third one *)
(* is raised to the caller as it is, with no sleep after it.               *)
C10_ThreeAttemptsPerInvocation ==
    \A t \in DOMAIN tasks : \A c \in { 1, 2 } :
        LET tk == tasks[t]
            F == Failures(tk, { c })
        IN  /\ Cardinality(F) <= _MAX_RETRIES
            /\ Cardinality(Retried(tk, { c })) <= _MAX_RETRIES - 1
            /\ \A i \in F : i < Len(tk.trace) => tk.trace[i + 1].ev = "sleep"
            /\ Cardinality(F) = _MAX_RETRIES =>
                   /\ tk.pc = "done"
                   /\ Len(tk.trace) \in F
                   /\ tk.result = Raised(tk.trace[Len(tk.trace)].exc, 0)
                   /\ (fpc = "finished" =>
                          outcome = Raised(tk.trace[Len(tk.trace)].exc, 0))

\* Two timeouts and a connection error: the connection error is raised.
C10_Witness ==
    /\ fpc = "finished"
    /\ outcome = Raised("ConnectionError", 0)
    /\ Cardinality(Failures(tasks[1], { 1 })) = 3
    /\ tasks[1].trace[1].exc = "Timeout"
    /\ Len(tasks[1].trace) = 5

-----------------------------------------------------------------------------
(* C11.  In WindsorClient, a response whose status is neither 2xx nor 400, *)
(* to the first request of an attempt or to a fallback resubmission, is    *)
(* the last thing of the invocation: no request and no sleep follows, and  *)
(* _fetch_single raises the HTTPError of that response.                    *)
C11_ErrorStatusNotRetried ==
    client = "windsor" =>
        \A t \in DOMAIN tasks : \A i \in DOMAIN tasks[t].trace :
            LET e == tasks[t].trace[i]
            IN  (Answered(e) /\ e.status \notin { 200, 400 })
                => /\ i = Len(tasks[t].trace)
                   /\ tasks[t].pc = "done"
                   /\ tasks[t].result = Raised("HTTPError", e.status)

\* A 400, then a 500 to the fallback resubmission, raised to the caller.
C11_Witness ==
    /\ client = "windsor"
    /\ fpc = "finished"
    /\ Len(tasks[1].trace) = 2
    /\ tasks[1].trace[1].status = 400
    /\ tasks[1].trace[2].status = 500 /\ tasks[1].trace[2].fallback
    /\ outcome = Raised("HTTPError", 500)

-----------------------------------------------------------------------------
(* C12.  On the chunked path, when the fetch of a chunk raised, _fetch      *)
(* raises the exception of a chunk that failed and returns no table.       *)
C12_ChunkFailureRaised ==
    ( /\ Finished
      /\ Len(chunks) > 0
      /\ \E t \in DOMAIN tasks : tasks[t].result.kind = "error" )
    => /\ outcome.kind = "error"
       /\ \E t \in DOMAIN tasks : outcome = tasks[t].result

\* Five chunks: one failed after a part with rows had been collected.
C12_Witness ==
    /\ Finished
    /\ Len(chunks) = 5
    /\ dfs # << >>
    /\ outcome.kind = "error"
    /\ \E t \in DOMAIN tasks : tasks[t].result.kind = "table"

-----------------------------------------------------------------------------
(* C13.  _fetch gives its caller a table or an exception, never nothing;   *)
(* it gives a table exactly when the last request of the fetch, or of      *)
(* every chunk, was answered with status 200, and an exception whenever    *)
(* the last request of the fetch or of a chunk got another status or       *)
(* failed for the last time allowed.                                       *)
LastRequest(tk) == Requests(tk)[Len(Requests(tk))]

Recovered(tk) ==
    LET r == Requests(tk)
    IN  r # << >> /\ Answered(r[Len(r)]) /\ r[Len(r)].status = 200

C13_NoSilentFailure ==
    Finished =>
        /\ outcome.kind \in { "table", "error" }
        /\ outcome.kind = "table" <=> \A t \in DOMAIN tasks : Recovered(tasks[t])
        /\ \A t \in DOMAIN tasks :
               tasks[t].result.kind = "table" <=> Recovered(tasks[t])

\* Three connectivity failures in a row reach the caller as the third one.
C13_Witness ==
    /\ Finished
    /\ Len(tasks) = 1
    /\ Len(Requests(tasks[1])) = 3
    /\ \A i \in 1 .. 3 : ConnFailed(Requests(tasks[1])[i])
    /\ outcome = Raised(LastRequest(tasks[1]).exc, 0)

-----------------------------------------------------------------------------
(* C14.  A _fetch_single whose accepted response has no "data" key or an   *)
(* empty list returns a table of zero rows with the fields it was asked    *)
(* for as columns, in GA4Client after the dialect retry too (the columns   *)
(* have the caller's names); a chunked _fetch whose chunks all came back   *)
(* without rows returns such a table as well.                              *)
C14_EmptyKeepsRequestedColumns ==
    /\ \A t \in DOMAIN tasks :
           ( /\ tasks[t].pc = "done"
             /\ LET last == tasks[t].trace[Len(tasks[t].trace)]
                IN  /\ Answered(last)
                    /\ last.status = 200
                    /\ last.data.kind \in { "nokey", "empty" } )
           => tasks[t].result = Table(fields, 0)
    /\ ( /\ Finished
         /\ \A t \in DOMAIN tasks :
                tasks[t].result.kind = "table" /\ tasks[t].result.nrows = 0 )
       => outcome = Table(fields, 0)

\* GA4Client: the snake_case request was answered with an empty list and
\* the table has the camelCase columns.
C14_Witness ==
    /\ client = "ga4"
    /\ Finished
    /\ tasks[1].call = 2
    /\ LastRequest(tasks[1]).data.kind = "empty"
    /\ LastRequest(tasks[1]).sent = << "date", "sessions", "screen_page_views",
                                       "conversions" >>
    /\ outcome = Table(<< "date", "sessions", "screenPageViews", "conversions" >>, 0)

-----------------------------------------------------------------------------
(* C15.  When GA4Client's fetch with the snake_case names returned a       *)
(* table, every column the response named with the snake_case form of a    *)
(* requested field has that field's name in the table returned, the other  *)
(* columns keep theirs, and no column has the snake_case form of a         *)
(* requested field that differs from it; screen_page_views comes back as   *)
(* screenPageViews.                                                        *)
C15_SnakeColumnsRenamedBack ==
    \A t \in DOMAIN tasks :
        ( /\ client = "ga4"
          /\ tasks[t].pc = "done"
          /\ tasks[t].call = 2
          /\ tasks[t].result.kind = "table" )
        => LET last == tasks[t].trace[Len(tasks[t].trace)]
               got == IF last.data.kind = "rows" THEN last.data.cols ELSE last.asked
               cols == tasks[t].result.cols
               snake == [ f \in Range(fields) |-> _camel_to_snake(f) ]
               renamed == { f \in Range(fields) : snake[f] # f }
           IN  /\ Len(cols) = Len(got)
               /\ \A i \in DOMAIN got :
                      /\ \A f \in renamed : got[i] = snake[f] => cols[i] = f
                      /\ (\A f \in renamed : got[i] # snake[f]) => cols[i] = got[i]
               /\ \A f \in renamed : snake[f] \notin Range(cols)
               /\ "screenPageViews" \in Range(fields)
                      => /\ "screenPageViews" \in renamed
                         /\ "screen_page_views" \notin Range(cols)
                         /\ "screen_page_views" \in Range(got)
                                => "screenPageViews" \in Range(cols)

\* The camelCase fetch ended in an HTTP error and the snake_case one
\* returned rows with screen_page_views.
C15_Witness ==
    /\ client = "ga4"
    /\ Finished
    /\ tasks[1].call = 2
    /\ LastRequest(tasks[1]).data.kind = "rows"
    /\ "screen_page_views" \in Range(LastRequest(tasks[1]).data.cols)
    /\ outcome.kind = "table"
    /\ "screenPageViews" \in Range(outcome.cols)
    /\ outcome.nrows = 1

-----------------------------------------------------------------------------
(* C16.  GA4Client._fetch_single makes its second invocation, the one with *)
(* the snake_case names, only after an HTTP error of the first, and never  *)
(* more than one: in the second invocation a response with an error status *)
(* is followed by a fallback resubmission of a shorter list or by nothing, *)
(* and when nothing follows the HTTPError of that response is raised.      *)
C16_DialectRetryOnce ==
    client = "ga4" =>
        \A t \in DOMAIN tasks :
            LET tr == tasks[t].trace
            IN  /\ \A i \in DOMAIN tr : tr[i].call \in { 1, 2 }
                /\ \A i \in 1 .. (Len(tr) - 1) :
                       /\ tr[i].call <= tr[i + 1].call
                       /\ tr[i].call < tr[i + 1].call
                              => Answered(tr[i]) /\ tr[i].status \in { 400, 500 }
                       /\ (tr[i].call = 2 /\ Answered(tr[i]))
                              => /\ tr[i].status = 400
                                 /\ tr[i + 1].ev = "request"
                                 /\ tr[i + 1].fallback
                                 /\ tr[i + 1].attempt = tr[i].attempt
                                 /\ Len(tr[i + 1].sent) < Len(tr[i].sent)
                /\ ( /\ tasks[t].pc = "done"
                     /\ tr[Len(tr)].call = 2
                     /\ Answered(tr[Len(tr)])
                     /\ tr[Len(tr)].status # 200 )
                   => tasks[t].result = Raised("HTTPError", tr[Len(tr)].status)

\* Both invocations ended in an HTTP error and the second one's was raised.
C16_Witness ==
    /\ client = "ga4"
    /\ Finished
    /\ tasks[1].call = 2
    /\ Len(tasks[1].trace) = 3
    /\ tasks[1].trace[1].call = 1 /\ tasks[1].trace[1].status = 500
    /\ tasks[1].trace[2].call = 2 /\ tasks[1].trace[2].status = 400
    /\ tasks[1].trace[3].call = 2 /\ tasks[1].trace[3].status = 400
    /\ outcome = Raised("HTTPError", 400)

-----------------------------------------------------------------------------
(* C17, as claimed.  _normalise_rates applied to the table it returned     *)
(* returns that table again: the rate columns have the values the first    *)
(* application gave them.                                                  *)
C17_NormaliseTwiceIsOnce ==
    Len(frames) = 3 => frames[3] = frames[2]

(* C17 for the tables whose rate columns are empty, hold a value above     *)
(* 0.01 or hold nothing but zeros, where it holds.                         *)
C17_NormaliseTwiceIsOnceAboveOneHundredth ==
    ( /\ Len(frames) = 3
      /\ \A col \in DOMAIN frames[1] \cap RATE_COLUMNS :
             \/ frames[1][col] = << >>
             \/ \E i \in DOMAIN frames[1][col] : frames[1][col][i] * 100 > One
             \/ \A i \in DOMAIN frames[1][col] : frames[1][col][i] = 0 )
    => frames[3] = frames[2]

-----------------------------------------------------------------------------
(* C18.  _normalise_rates returns a rate column that has a value and whose *)
(* values all lie in [0, 1] with every value multiplied by 100, which lies *)
(* in [0, 100]; it returns a rate column with a value above 1 as it was;   *)
(* it returns the columns that are no rate columns as they were.           *)
C18_ScaledByOneHundred ==
    \A k \in 1 .. (Len(frames) - 1) :
        /\ DOMAIN frames[k + 1] = DOMAIN frames[k]
        /\ \A col \in DOMAIN frames[k] :
               LET vals == frames[k][col]
                   out == frames[k + 1][col]
               IN  /\ Len(out) = Len(vals)
                   /\ ( /\ col \in RATE_COLUMNS
                        /\ vals # << >>
                        /\ \A i \in DOMAIN vals : 0 <= vals[i] /\ vals[i] <= One )
                      => \A i \in DOMAIN vals :
                             /\ out[i] = 100 * vals[i]
                             /\ 0 <= out[i] /\ out[i] <= 100 * One
                   /\ ( /\ col \in RATE_COLUMNS
                        /\ \E i \in DOMAIN vals : vals[i] > One )
                      => out = vals
                   /\ col \notin RATE_COLUMNS => out = vals

\* bounce_rate with 0.5 and 1.0 became 50 and 100; the column next to it,
\* no rate, kept its 1.0.
C18_Witness ==
    /\ Len(frames) = 2
    /\ DOMAIN frames[1] = { "bounce_rate", "sessions" }
    /\ frames[1]["bounce_rate"] = << One \div 2, One >>
    /\ frames[2]["bounce_rate"] = << 50 * One, 100 * One >>
    /\ frames[2]["sessions"] = << One, One >>

-----------------------------------------------------------------------------
(* C19.  With a progress callback, a single-shot _fetch calls it exactly   *)
(* once, with (1, 1); a chunked _fetch of n chunks that all succeed calls  *)
(* it exactly n times, with (1, n), (2, n), ..., (n, n) in this order, the *)
(* k-th call when the k-th chunk has completed.                            *)
C19_ProgressReported ==
    /\ ~ progress_cb => cb_log = << >>
    /\ (progress_cb /\ fpc = "single") => cb_log = << << 1, 1 >> >>
    /\ (progress_cb /\ Finished /\ chunks = << >>) => cb_log = << << 1, 1 >> >>
    /\ (progress_cb /\ fpc = "collect")
           => /\ Len(cb_log) = Cardinality(yielded)
              /\ \A k \in DOMAIN cb_log : cb_log[k] = << k, Len(chunks) >>
              /\ \A t \in yielded : tasks[t].pc = "done"
    /\ ( /\ progress_cb /\ Finished /\ chunks # << >>
         /\ \A t \in DOMAIN tasks : tasks[t].result.kind = "table" )
       => cb_log = [ k \in 1 .. Len(chunks) |-> << k, Len(chunks) >> ]

\* Five chunks, all fetched: five calls, the last with (5, 5).
C19_Witness ==
    /\ progress_cb
    /\ Finished
    /\ Len(chunks) = 5
    /\ outcome.kind = "table"
    /\ Len(cb_log) = 5
    /\ cb_log[5] = << 5, 5 >>

-----------------------------------------------------------------------------
(* C20.  On the chunked path at most _WORKERS = 4 chunk fetches are under  *)
(* way at a time (started and not yet returned or raised), however many    *)
(* chunks there are.                                                       *)
C20_AtMostFourInFlight ==
    Cardinality({ t \in DOMAIN tasks :
                    tasks[t].pc \notin { "queued", "done" } }) <= 4

\* Five chunks: four fetches under way and the fifth waiting for a thread.
C20_Witness ==
    /\ Len(chunks) = 5
    /\ Cardinality({ t \in DOMAIN tasks : tasks[t].pc \notin { "queued", "done" } }) = 4
    /\ tasks[5].pc = "queued"

-----------------------------------------------------------------------------
\* C21: in every table that _fetch_single or _fetch hands to its caller, no
\* column of the client's numeric-field catalog holds a missing marker, a
\* table merged from chunks with different column sets included.
C21_NumericCellsHoldNumbers ==
    /\ \A t \in DOMAIN tasks :
          tasks[t].result.kind = "table"
              => tasks[t].result.nulls \cap numeric_fields(client) = {}
    /\ outcome.kind = "table" => outcome.nulls \cap numeric_fields(client) = {}

-----------------------------------------------------------------------------
\* The groups of the client's catalog that hold a field of a list.
GroupsIn(c, fs) ==
    { g \in DOMAIN optional_groups(c) :
        Range(optional_groups(c)[g]) \cap Range(fs) # { } }

\* The first of them in catalog order.
FirstGroupIn(c, fs) ==
    CHOOSE g \in GroupsIn(c, fs) : \A h \in GroupsIn(c, fs) : g <= h

\* C22: in a fallback pass groups are taken in catalog order: every
\* resubmission follows a 400 response of the same attempt and sends the list
\* of the request before it without the fields of the first catalog group
\* that has a field in it, a strictly smaller list; a group with no field in
\* the list causes none; after a response other than 400 no fallback request
\* follows, and the pass ends with a 400 only when no group has a field left.
C22_FallbackInCatalogOrder ==
    \A t \in DOMAIN tasks :
        LET tr == tasks[t].trace
        IN  /\ \A i \in 1 .. Len(tr) :
                  (tr[i].ev = "request" /\ tr[i].fallback)
                  => /\ i > 1
                     /\ Answered(tr[i - 1]) /\ tr[i - 1].status = 400
                     /\ tr[i - 1].call = tr[i].call
                     /\ tr[i - 1].attempt = tr[i].attempt
                     /\ GroupsIn(client, tr[i - 1].sent) # { }
                     /\ tr[i].sent =
                            without(tr[i - 1].sent,
                                    optional_groups(client)
                                        [FirstGroupIn(client, tr[i - 1].sent)])
                     /\ Len(tr[i].sent) < Len(tr[i - 1].sent)
            /\ \A i \in 1 .. Len(tr) - 1 :
                  (Answered(tr[i]) /\ tr[i].status = 400
                       /\ GroupsIn(client, tr[i].sent) # { })
                  => (tr[i + 1].ev = "request" /\ tr[i + 1].fallback)
            /\ (tasks[t].pc = "done" /\ Len(tr) > 0
                    /\ Answered(tr[Len(tr)]) /\ tr[Len(tr)].status = 400)
                  => GroupsIn(client, tr[Len(tr)].sent) = { }

\* A pass with two resubmissions for groups that are not neighbours in the
\* catalog, ended by the first response other than 400.
C22_Witness ==
    \E t \in DOMAIN tasks :
        LET tr == tasks[t].trace
        IN  /\ tasks[t].pc = "done" /\ tasks[t].result.kind = "table"
            /\ Len(tr) = 3
            /\ ~ tr[1].fallback /\ tr[1].status = 400
            /\ tr[2].fallback /\ tr[2].status = 400
            /\ tr[3].fallback /\ tr[3].status = 200
            /\ FirstGroupIn(client, tr[2].sent)
                   > FirstGroupIn(client, tr[1].sent) + 1

-----------------------------------------------------------------------------
\* C23: every request sent at native (daily) granularity, by a chunk or by
\* the single-shot path, covers at most 90 calendar days, both ends counted.
C23_DailyRequestsWithinQuarter ==
    date_aggregation = "none"
        => \A e \in AllRequests :
              CalendarDays(fromisoformat(e.from), fromisoformat(e.to))
                  <= _QUARTER_DAYS

\* The same of the requests of the chunked path alone.
C23_ChunkRequestsWithinQuarter ==
    (date_aggregation = "none" /\ chunks # << >>)
        => \A e \in AllRequests :
              CalendarDays(fromisoformat(e.from), fromisoformat(e.to))
                  <= _QUARTER_DAYS

-----------------------------------------------------------------------------
\* A step of a pool thread: it changes the record of its work item.
WorkerStep == tasks' # tasks /\ fpc # "start"

\* C24: on the chunked path a step of a worker changes its own work item
\* and nothing the threads share: the counter done, the list dfs, the
\* callback's log and the result change only in steps of the calling thread;
\* and the returned table is the concatenation of dfs made when every future
\* has been yielded and every chunk fetch has ended.
C24_MergeAfterAllOnCallingThread ==
    /\ [][ WorkerStep
             => /\ done' = done /\ dfs' = dfs /\ yielded' = yielded
                /\ cb_log' = cb_log /\ pending' = pending /\ outcome' = outcome
                /\ \E t \in DOMAIN tasks :
                      \A u \in DOMAIN tasks \ { t } : tasks'[u] = tasks[u] ]_vars
    /\ [][ (chunks # << >> /\ outcome' # outcome)
             => /\ tasks' = tasks
                /\ outcome'.kind = "table"
                     => /\ yielded = DOMAIN tasks
                        /\ \A t \in DOMAIN tasks : tasks[t].pc = "done"
                        /\ done = Len(chunks) ]_vars
    /\ [] ((chunks # << >> /\ outcome.kind = "table")
             => /\ yielded = DOMAIN tasks
                /\ outcome = IF dfs = << >> THEN Table(fields, 0) ELSE concat(dfs))

\* A table merged from the tables of five chunks fetched by four workers.
C24_Witness ==
    /\ Finished /\ Len(chunks) = 5 /\ Len(dfs) = 5
    /\ outcome = concat(dfs)

-----------------------------------------------------------------------------
\* C25: when _fetch on the chunked path has returned or raised, no chunk
\* fetch is queued or under way: every submitted chunk has run to its end,
\* also when a chunk that completed earlier had failed.
C25_NothingInFlightAtReturn ==
    (Finished /\ chunks # << >>)
        => \A t \in DOMAIN tasks :
              tasks[t].pc = "done" /\ tasks[t].result.kind # "none"

\* _fetch raised the failure of the first future it was given, and the
\* other four chunks, never looked at, were fetched to the end all the same.
C25_Witness ==
    /\ Finished /\ outcome.kind = "error"
    /\ Len(chunks) = 5 /\ Cardinality(yielded) = 1
    /\ \A t \in DOMAIN tasks \ yielded :
          tasks[t].pc = "done" /\ tasks[t].result.kind = "table"
                               /\ tasks[t].trace # << >>

-----------------------------------------------------------------------------
\* The requests of invocation k of WindsorClient._fetch_single in a task.
RequestsOfCall(tk, k) ==
    SelectSeq(tk.trace, LAMBDA e : e.ev = "request" /\ e.call = k)

\* 3 x (1 + G) for a requested list.
RequestBudget(c, fs) == _MAX_RETRIES * (1 + Cardinality(GroupsIn(c, fs)))

-----------------------------------------------------------------------------
\* The fields of the groups of a catalog.
GroupFields(groups) == UNION { Range(groups[g]) : g \in DOMAIN groups }

\* C27: a field in no fallback group is never dropped: every request holds
\* every originally requested field that is in no group of the client's
\* catalog, under the name its invocation asks for it; date is in no group
\* of either catalog, every list of a facade method has a field of no group,
\* and no request has an empty field list.
C27_CoreFieldsNeverDropped ==
    /\ "date" \notin GroupFields(_OPTIONAL_GROUPS)
                        \cup GroupFields(_GA4_OPTIONAL_GROUPS)
    /\ \A c \in Clients : \A fs \in facade_fields(c) :
          Range(fs) \ GroupFields(optional_groups(c)) # { }
    /\ \A t \in DOMAIN tasks :
          \A e \in Range(Requests(tasks[t])) :
             /\ \A i \in DOMAIN tasks[t].fields :
                   tasks[t].fields[i] \notin GroupFields(optional_groups(client))
                       => e.asked[i] \in Range(e.sent)
             /\ "date" \in Range(tasks[t].fields) => "date" \in Range(e.sent)
             /\ e.sent # << >>

\* Every field of a group is gone from the last request, which still holds
\* the fields of no group.
C27_Witness ==
    \E t \in DOMAIN tasks :
        /\ Requests(tasks[t]) # << >>
        /\ LET e == LastRequest(tasks[t])
           IN  /\ e.fallback
               /\ GroupsIn(client, e.sent) = { }
               /\ Len(e.sent) >= 2
               /\ Len(e.asked) - Len(e.sent) >= 3

-----------------------------------------------------------------------------
\* A column with every value multiplied by 100.
Times100(vals) == [ i \in DOMAIN vals |-> vals[i] * 100 ]

\* C28: in a table that GA4Client._fetch merged from several chunks every
\* rate column is on one scale: either the values of every chunk were
\* multiplied by 100 or the values of no chunk were.
C28_MergedRatesOnOneScale ==
    (fpc = "finished" /\ Len(frames) = 2 /\ outcome.kind = "table")
        => \A col \in RATE_COLUMNS \cap Range(fields) :
              \/ \A k \in DOMAIN dfs :
                    dfs[k].df[col] = frames[dfs[k].chunk][col]
              \/ \A k \in DOMAIN dfs :
                    dfs[k].df[col] = Times100(frames[dfs[k].chunk][col])

\* The same for an upstream on the 0-1 scale: no value above 1.0.
C28_MergedFractionsOnOneScale ==
    (fpc = "finished" /\ Len(frames) = 2 /\ outcome.kind = "table"
       /\ \A i \in DOMAIN frames : \A col \in RATE_COLUMNS \cap DOMAIN frames[i] :
             \A r \in DOMAIN frames[i][col] : frames[i][col][r] <= One)
        => \A col \in RATE_COLUMNS \cap Range(fields) :
              /\ \A k \in DOMAIN dfs :
                    dfs[k].df[col] = Times100(frames[dfs[k].chunk][col])
              /\ \A r \in DOMAIN outcome.df[col] :
                    outcome.df[col][r] <= 100 * One

-----------------------------------------------------------------------------
\* The fetches of the call that have ended with a table.
Succeeded ==
    { t \in DOMAIN tasks : tasks[t].pc = "done" /\ tasks[t].result.kind = "table" }

\* C29: the progress callback reports only work that succeeded: when it has
\* been invoked with (k, total), at least k fetches of the call have ended
\* with a table, and after an invocation with k = total _fetch returns a
\* table.
C29_ProgressOnlyForSuccess ==
    /\ \A i \in DOMAIN cb_log : cb_log[i][1] <= Cardinality(Succeeded)
    /\ (Finished /\ \E i \in DOMAIN cb_log : cb_log[i][1] = cb_log[i][2])
           => outcome.kind = "table"

\* On the chunked path the callback reports fetches that have ended, with a
\* table or with a failure.
C29_ProgressForEndedChunks ==
    chunks # << >>
        => \A i \in DOMAIN cb_log :
              cb_log[i][1] <= Cardinality({ t \in DOMAIN tasks : tasks[t].pc = "done" })

-----------------------------------------------------------------------------
=============================================================================
